---- MODULE Spec2Model ----
(***************************************************************************)
(* pycsob: request signing, canonical message construction and the        *)
(* response validation pipeline (pycsob/utils.py, pycsob/client.py).       *)
(*                                                                         *)
(* Python strings are sequences of one-character strings, bytes are        *)
(* sequences of integers.  Python values are tagged records                *)
(* [kind, val]; an (ordered) dict is a sequence of [k, v] items with       *)
(* distinct keys, in insertion order.                                      *)
(***************************************************************************)
EXTENDS Integers, Sequences, FiniteSets, TLC

----------------------------------------------------------------------------
(* Bounds of the model *)

MaxFields == 2
MaxCart == 2
MaxSigns == 2
MaxExt == 2
NKeys == 2

----------------------------------------------------------------------------
(* Python values *)

(* Every value carries all fields, so that any two values can be compared *)
NoKey == 0
NoSignature == [kind |-> "none", raw |-> [signer |-> NoKey, digest |-> [sha |-> <<>>]]]
Blank == [kind |-> "none", text |-> <<>>, num |-> 0, flag |-> FALSE, items |-> <<>>, sig |-> NoSignature]

StrV(s) == [Blank EXCEPT !.kind = "str", !.text = s]
IntV(n) == [Blank EXCEPT !.kind = "int", !.num = n]
BoolV(b) == [Blank EXCEPT !.kind = "bool", !.flag = b]
ListV(l) == [Blank EXCEPT !.kind = "list", !.items = l]
SigV(signature) == [Blank EXCEPT !.kind = "sig", !.sig = signature]
NoneV == Blank

Item(k, v) == [k |-> k, v |-> v]

Keys(d) == {d[i].k : i \in 1..Len(d)}
Has(d, k) == k \in Keys(d)
Get(d, k) == d[CHOOSE i \in 1..Len(d) : d[i].k = k].v
Values(d) == [i \in 1..Len(d) |-> d[i].v]

RECURSIVE Without(_, _)
Without(d, k) ==
    IF d = <<>> THEN <<>>
    ELSE IF Head(d).k = k THEN Without(Tail(d), k)
    ELSE <<Head(d)>> \o Without(Tail(d), k)

(* dict[k] = v : replaces the value in place, or appends a new key *)
SetItem(d, k, v) ==
    IF Has(d, k) THEN [i \in 1..Len(d) |-> IF d[i].k = k THEN Item(k, v) ELSE d[i]]
    ELSE Append(d, Item(k, v))

RECURSIVE Concat(_)
Concat(ss) == IF ss = <<>> THEN <<>> ELSE Head(ss) \o Concat(Tail(ss))

(* sep.join(ss) *)
RECURSIVE Join(_, _)
Join(sep, ss) ==
    IF ss = <<>> THEN <<>>
    ELSE IF Len(ss) = 1 THEN ss[1]
    ELSE ss[1] \o sep \o Join(sep, Tail(ss))

----------------------------------------------------------------------------
(* str(int), int(str) *)

Digits == <<"0", "1", "2", "3", "4", "5", "6", "7", "8", "9">>
IsDigit(c) == \E i \in 1..10 : Digits[i] = c
DigitVal(c) == (CHOOSE i \in 1..10 : Digits[i] = c) - 1

RECURSIVE NatStr(_)
NatStr(n) == IF n < 10 THEN <<Digits[n + 1]>> ELSE NatStr(n \div 10) \o <<Digits[(n % 10) + 1]>>

IntStr(n) == IF n < 0 THEN <<"-">> \o NatStr(-n) ELSE NatStr(n)

RECURSIVE Strip(_)
Strip(s) ==
    IF s = <<>> THEN s
    ELSE IF Head(s) = " " THEN Strip(Tail(s))
    ELSE IF s[Len(s)] = " " THEN Strip(SubSeq(s, 1, Len(s) - 1))
    ELSE s

RECURSIVE DigitsVal(_, _)
DigitsVal(s, acc) == IF s = <<>> THEN acc ELSE DigitsVal(Tail(s), 10 * acc + DigitVal(Head(s)))

(* int(s) accepts surrounding whitespace, one optional sign and decimal digits *)
IntBody(s) == LET t == Strip(s) IN IF t # <<>> /\ Head(t) \in {"+", "-"} THEN Tail(t) ELSE t
IntParses(s) == IntBody(s) # <<>> /\ \A i \in 1..Len(IntBody(s)) : IsDigit(IntBody(s)[i])
IntParse(s) ==
    LET t == Strip(s) IN
    IF Head(t) = "-" THEN 0 - DigitsVal(IntBody(s), 0) ELSE DigitsVal(IntBody(s), 0)

----------------------------------------------------------------------------
(* pycsob.conf *)

EMPTY_VALUES == {NoneV, StrV(<<>>), ListV(<<>>)}

RESPONSE_KEYS == <<"payId", "dttm", "resultCode", "resultMessage", "paymentStatus", "authCode">>

----------------------------------------------------------------------------
(* utils.str_or_jsbool, utils.mk_msg_for_sign *)

(* str(v) for the values a payload holds.  The only list str() is ever     *)
(* applied to is the empty one: a non-empty list is held by 'cart' alone   *)
(* and is flattened before the join.                                       *)
PyStr(v) ==
    CASE v.kind = "str" -> v.text
      [] v.kind = "int" -> IntStr(v.num)
      [] v.kind = "bool" -> IF v.flag THEN <<"T", "r", "u", "e">> ELSE <<"F", "a", "l", "s", "e">>
      [] v.kind = "none" -> <<"N", "o", "n", "e">>
      [] v.kind = "list" -> <<"[", "]">>

Lower(s) == [i \in 1..Len(s) |-> CASE s[i] = "T" -> "t" [] s[i] = "F" -> "f" [] OTHER -> s[i]]

str_or_jsbool(v) == IF v.kind = "bool" THEN Lower(PyStr(v)) ELSE PyStr(v)

(* code points of the characters of the model; "z^" stands for U+017E *)
CodePoints ==
    <<  <<" ", 32>>, <<"+", 43>>, <<"-", 45>>,
        <<"0", 48>>, <<"1", 49>>, <<"2", 50>>, <<"3", 51>>, <<"4", 52>>,
        <<"5", 53>>, <<"6", 54>>, <<"7", 55>>, <<"8", 56>>, <<"9", 57>>,
        <<"C", 67>>, <<"F", 70>>, <<"K", 75>>, <<"N", 78>>, <<"O", 79>>, <<"P", 80>>,
        <<"R", 82>>, <<"S", 83>>, <<"T", 84>>, <<"Z", 90>>, <<"[", 91>>, <<"]", 93>>,
        <<"a", 97>>, <<"c", 99>>, <<"d", 100>>, <<"e", 101>>, <<"f", 102>>, <<"k", 107>>,
        <<"l", 108>>, <<"m", 109>>, <<"n", 110>>, <<"o", 111>>, <<"p", 112>>, <<"r", 114>>,
        <<"s", 115>>, <<"t", 116>>, <<"u", 117>>, <<"x", 120>>, <<"y", 121>>, <<"|", 124>>,
        <<"z^", 382>> >>

Alphabet == {CodePoints[i][1] : i \in 1..Len(CodePoints)}

Ord == [c \in Alphabet |-> CodePoints[CHOOSE i \in 1..Len(CodePoints) : CodePoints[i][1] = c][2]]

(* str.encode('utf-8'), code points below U+0800 *)
Utf8Bytes(cp) ==
    IF cp < 128 THEN <<cp>>
    ELSE <<192 + (cp \div 64), 128 + (cp % 64)>>

Utf8Char == [c \in Alphabet |-> Utf8Bytes(Ord[c])]

RECURSIVE Utf8(_)
Utf8(s) == IF s = <<>> THEN <<>> ELSE Utf8Char[Head(s)] \o Utf8(Tail(s))

RECURSIVE DropNone(_)
DropNone(d) ==
    IF d = <<>> THEN <<>>
    ELSE IF Head(d).v # NoneV THEN <<Head(d)>> \o DropNone(Tail(d))
    ELSE DropNone(Tail(d))

(* cart_msg collected field after field instead of item after item *)
CartValues_byField(cart) ==
    IF cart = <<>> THEN <<>>
    ELSE Concat([j \in 1..Len(cart[1]) |-> [i \in 1..Len(cart) |-> cart[i][j].v]])

(* cart_msg: the values of every cart item, item after item *)
CartValues(cart) == Concat([i \in 1..Len(cart) |-> Values(cart[i])])

MapStr(vs) == [i \in 1..Len(vs) |-> str_or_jsbool(vs[i])]

FlattenCart(cart) == StrV(Join(<<"|">>, MapStr(CartValues(cart.items))))

(* the values joined without the separator *)
MsgText_unseparated(payload) ==
    LET p == DropNone(payload)
        q == IF Has(p, "cart") /\ Get(p, "cart") \notin EMPTY_VALUES
             THEN SetItem(p, "cart", FlattenCart(Get(p, "cart")))
             ELSE p
    IN Concat(MapStr(Values(q)))

MsgText(payload) ==
    LET p == DropNone(payload)
        q == IF Has(p, "cart") /\ Get(p, "cart") \notin EMPTY_VALUES
             THEN SetItem(p, "cart", FlattenCart(Get(p, "cart")))
             ELSE p
    IN Join(<<"|">>, MapStr(Values(q)))

mk_msg_for_sign(payload) == Utf8(MsgText(payload))

----------------------------------------------------------------------------
(* utils.sign, utils.verify, utils.mk_payload                               *)
(*                                                                         *)
(* SHA-1 and RSA PKCS#1 v1.5 are taken as ideal: a digest determines its   *)
(* message, and a signature verifies exactly under the key pair that made  *)
(* it and for the digest it was made for.  A key is named by the number of *)
(* its pair.                                                               *)

KeyIds == 1..NKeys

SHA(msg) == [sha |-> msg]

RsaSign(h, key) == [signer |-> key, digest |-> h]
RsaVerify(h, sigbytes, key) == sigbytes.signer = key /\ sigbytes.digest = h

b64encode(raw) == [kind |-> "b64", raw |-> raw]
b64decode(text) == text.raw

(* signature strings that no signer produced: well-formed base64 of bytes  *)
(* that are no signature, and text base64 decoding rejects                 *)
JunkSignature == b64encode([signer |-> NoKey, digest |-> SHA(<<>>)])
BadPadding == [kind |-> "badpad", raw |-> [signer |-> NoKey, digest |-> SHA(<<>>)]]

(* the signer stringifies with str() alone, so booleans are capitalised *)
sign_plainStr(payload, key) ==
    LET p == DropNone(payload)
        q == IF Has(p, "cart") /\ Get(p, "cart") \notin EMPTY_VALUES
             THEN SetItem(p, "cart", FlattenCart(Get(p, "cart")))
             ELSE p
    IN b64encode(RsaSign(SHA(Utf8(Join(<<"|">>, [i \in 1..Len(q) |-> PyStr(q[i].v)]))), key))

sign(payload, key) == b64encode(RsaSign(SHA(mk_msg_for_sign(payload)), key))

(* the verifier checks who signed, not what was signed *)
verify_keyOnly(payload, signature, pubkey) == b64decode(signature).signer = pubkey

(* b64decode raises binascii.Error on incorrect padding *)
verify_raises(signature) == signature.kind # "b64"

verify(payload, signature, pubkey) ==
    RsaVerify(SHA(mk_msg_for_sign(payload)), b64decode(signature), pubkey)

RECURSIVE DropEmpty(_)
DropEmpty(pairs) ==
    IF pairs = <<>> THEN <<>>
    ELSE IF Head(pairs).v \notin EMPTY_VALUES THEN <<Head(pairs)>> \o DropEmpty(Tail(pairs))
    ELSE DropEmpty(Tail(pairs))

(* the signature is computed before the empty values are filtered out *)
mk_payload_signsPairs(key, pairs) ==
    SetItem(DropEmpty(pairs), "signature", SigV(sign(pairs, key)))

mk_payload(key, pairs) ==
    LET payload == DropEmpty(pairs)
    IN SetItem(payload, "signature", SigV(sign(payload, key)))

----------------------------------------------------------------------------
(* Inputs of the signing functions *)

Chr(c) == StrV(<<c>>)

(* a text field holds a string, possibly empty, or None; a flag holds a     *)
(* bool, an int, or None                                                   *)
Scalars(k) ==
    IF k = "description" THEN {Chr("1"), StrV(<<>>), NoneV}
    ELSE {BoolV(TRUE), IntV(1), NoneV}

CartItem(name, quantity, amount) ==
    <<Item("name", Chr(name)), Item("quantity", IntV(quantity)), Item("amount", IntV(amount))>>

(* the cart of n items *)
CartOf(n) == [i \in 1..n |-> IF i % 2 = 1 THEN CartItem("z^", 1, 10) ELSE CartItem("y", 5, 0)]

Carts == {ListV(CartOf(n)) : n \in 0..MaxCart}

ScalarNames == {"description", "closePayment"}

ScalarItems(k) == {Item(k, v) : v \in Scalars(k)}

FieldItems == UNION {ScalarItems(k) : k \in ScalarNames} \cup {Item("cart", v) : v \in Carts}

DistinctKeys(d) == \A i, j \in 1..Len(d) : d[i].k = d[j].k => i = j

PayloadsOfLen(n) == {p \in [1..n -> FieldItems] : DistinctKeys(p)}

Payloads == UNION {PayloadsOfLen(n) : n \in 0..MaxFields}

(* q is p with the value of one field changed, one field removed or added, *)
(* or two neighbours swapped                                               *)
OneEdit(p, q) ==
    \/ /\ Len(q) = Len(p)
       /\ \E i \in 1..Len(p) : /\ q[i] # p[i]
                              /\ q[i].k = p[i].k
                              /\ \A j \in 1..Len(p) : j # i => q[j] = p[j]
    \/ /\ Len(p) > 0
       /\ \E i \in 1..Len(p) : q = SubSeq(p, 1, i - 1) \o SubSeq(p, i + 1, Len(p))
    \/ /\ Len(q) > 0
       /\ \E i \in 1..Len(q) : p = SubSeq(q, 1, i - 1) \o SubSeq(q, i + 1, Len(q))
    \/ /\ Len(p) > 1
       /\ \E i \in 1..(Len(p) - 1) :
            q = [j \in 1..Len(p) |-> IF j = i THEN p[i + 1] ELSE IF j = i + 1 THEN p[i] ELSE p[j]]

----------------------------------------------------------------------------
(* Exceptions (pycsob.exceptions and the ones Python raises itself) *)

Exc(type, cause, status, text) == [type |-> type, cause |-> cause, status |-> status, text |-> text]
NoError == Exc("", "", 0, "")

(* requests: Response.raise_for_status raises HTTPError for 4xx and 5xx *)
IsErrorStatus(status) == status >= 400 /\ status < 600
HTTPError(status) ==
    Exc("HTTPError", "", status, IF status < 500 THEN "Client Error" ELSE "Server Error")

CsobBaseException(cause) == Exc("CsobBaseException", cause.type, cause.status, cause.text)
CsobJSONDecodeError == Exc("CsobJSONDecodeError", "", 0, "Cannot decode JSON in response")
CsobVerifyError(text) == Exc("CsobVerifyError", "", 0, text)
KeyError(k) == Exc("KeyError", "", 0, k)
TypeError == Exc("TypeError", "", 0, "")
ValueError == Exc("ValueError", "", 0, "")
BinasciiError == Exc("binascii.Error", "", 0, "Incorrect padding")
ConnectionError == Exc("ConnectionError", "", 0, "Can't connect")

----------------------------------------------------------------------------
(* utils.validate_response *)

(* the response object: what the transport delivered, and the attributes   *)
(* validate_response sets on it                                            *)
Response(status, kind, body) ==
    [status |-> status, kind |-> kind, body |-> body,
     hasPayload |-> FALSE, payload |-> <<>>,
     hasExtensions |-> FALSE, extensions |-> <<>>]

NoResponse == Response(0, "none", <<>>)

(* the keys are copied in the order the data holds them *)
Extract_dataOrder(keys, data) ==
    SelectSeq(data, LAMBDA it : \E i \in 1..Len(keys) : keys[i] = it.k)

(* for k in keys: if k in data: o[k] = data[k] *)
RECURSIVE Extract(_, _)
Extract(keys, data) ==
    IF keys = <<>> THEN <<>>
    ELSE IF Has(data, Head(keys)) THEN <<Item(Head(keys), Get(data, Head(keys)))>> \o Extract(Tail(keys), data)
    ELSE Extract(Tail(keys), data)

maskclnrp_keys == <<"extension", "dttm", "maskedCln", "expiration", "longMaskedCln">>

maskClnRP == <<"m", "a", "s", "k", "C", "l", "n", "R", "P">>
maskCln == <<"m", "a", "s", "k", "C", "l", "n">>

MaskedCardTypes == {StrV(maskClnRP), StrV(maskCln)}

(* Outcome of (a part of) validate_response: the exception that left it,   *)
(* the attributes set so far, and how many signatures and extension        *)
(* entries were examined.                                                  *)
Outcome(raised, response, verifies, entries) ==
    [raised |-> raised, response |-> response, verifies |-> verifies, entries |-> entries]

(* for one in data['extensions'], from entry i on *)
RECURSIVE ExtensionLoop(_, _, _, _, _)
ExtensionLoop(list, i, response, pub, verifies) ==
    IF i > Len(list) THEN Outcome(NoError, response, verifies, i - 1)
    ELSE LET one == list[i]
             o == Extract(maskclnrp_keys, one)
         IN IF ~Has(one, "extension") THEN Outcome(KeyError("extension"), response, verifies, i)
            ELSE IF Get(one, "extension") \notin MaskedCardTypes
                 THEN ExtensionLoop(list, i + 1, response, pub, verifies)
            ELSE IF ~Has(one, "signature") THEN Outcome(KeyError("signature"), response, verifies, i)
            ELSE IF verify_raises(Get(one, "signature").sig)
                 THEN Outcome(BinasciiError, response, verifies + 1, i)
            ELSE IF verify(o, Get(one, "signature").sig, pub)
                 THEN ExtensionLoop(list, i + 1,
                                    [response EXCEPT !.extensions = Append(@, o)], pub, verifies + 1)
            ELSE Outcome(CsobVerifyError("Cannot verify masked card extension response"),
                         response, verifies + 1, i)

(* lines 80-107: data is the decoded body *)
validate_decoded(response, pub) ==
    IF response.kind # "object" THEN Outcome(TypeError, response, 0, 0)
    ELSE IF ~Has(response.body, "signature") THEN Outcome(KeyError("signature"), response, 0, 0)
    ELSE LET signature == Get(response.body, "signature").sig
             data == Without(response.body, "signature")
             payload == Extract(RESPONSE_KEYS, data)
         IN IF verify_raises(signature) THEN Outcome(BinasciiError, response, 1, 0)
            ELSE IF ~verify(payload, signature, pub)
                 THEN Outcome(CsobVerifyError("Cannot verify response"), response, 1, 0)
            ELSE LET attached == [response EXCEPT !.hasExtensions = TRUE, !.extensions = <<>>,
                                                  !.hasPayload = TRUE, !.payload = payload]
                 IN IF Has(data, "extensions")
                    THEN ExtensionLoop(Get(data, "extensions").items, 1, attached, pub, 1)
                    ELSE Outcome(NoError, attached, 1, 0)

(* the body is decoded before the status is looked at *)
validate_response_decodeFirst(response, pub) ==
    IF response.kind = "text" THEN Outcome(CsobJSONDecodeError, response, 0, 0)
    ELSE IF IsErrorStatus(response.status)
    THEN Outcome(CsobBaseException(HTTPError(response.status)), response, 0, 0)
    ELSE validate_decoded(response, pub)

validate_response(response, pub) ==
    IF IsErrorStatus(response.status)
    THEN Outcome(CsobBaseException(HTTPError(response.status)), response, 0, 0)
    ELSE IF response.kind = "text" THEN Outcome(CsobJSONDecodeError, response, 0, 0)
    ELSE validate_decoded(response, pub)

----------------------------------------------------------------------------
(* Inputs of the client: responses of the gateway, gateway-return data *)

merchant_id == Chr("x")
Clock == {Chr("1")}

Word(w) == StrV(w)
OK == Word(<<"O", "K">>)

(* a decoded body holds 'dttm' and a result message, with a result code or *)
(* with the message empty, and may hold a key the client does not know     *)
RecognizedFields ==
    {<<Item("dttm", Chr("1")), Item("resultCode", IntV(0)), Item("resultMessage", OK)>>,
     <<Item("dttm", Chr("1")), Item("resultMessage", StrV(<<>>))>>}

Reverse(d) == [i \in 1..Len(d) |-> d[Len(d) + 1 - i]]

(* the fields in the order the server transmits them *)
WireFields ==
    UNION {{f, Reverse(f), <<Item("bonus", Chr("y"))>> \o f} : f \in RecognizedFields}

(* what a gateway may have signed for a body: its recognized fields in     *)
(* recognized-key order, the fields as transmitted, or the recognized      *)
(* fields without the empty ones                                           *)
SignedViews(fields) ==
    {Extract(RESPONSE_KEYS, fields), fields, DropEmpty(Extract(RESPONSE_KEYS, fields))}

GatewayKey == 1

SignatureChoices(fields) ==
    {<<Item("signature", SigV(sign(view, GatewayKey)))>> : view \in SignedViews(fields)}
        \cup {<<Item("signature", SigV(JunkSignature))>>, <<Item("signature", SigV(BadPadding))>>, <<>>}

ExtensionFields(type) ==
    <<Item("extension", StrV(type)), Item("dttm", Chr("1")), Item("maskedCln", Chr("5"))>>

(* extension entries: a masked-card entry signed by the gateway (its keys   *)
(* transmitted in another order), one with a signature that is none, one   *)
(* without signature, and an entry of another type                         *)
ExtensionEntries ==
    {Reverse(ExtensionFields(maskClnRP)
                \o <<Item("signature", SigV(sign(ExtensionFields(maskClnRP), GatewayKey)))>>),
     ExtensionFields(maskCln) \o <<Item("signature", SigV(JunkSignature))>>,
     ExtensionFields(maskClnRP),
     ExtensionFields(<<"x">>)}

ExtensionLists == UNION {[1..n -> ExtensionEntries] : n \in 0..MaxExt}

ExtensionChoices == {<<>>} \cup {<<Item("extensions", ListV(l))>> : l \in ExtensionLists}

BodiesOf(f) ==
    {f \o ext \o sig : sig \in SignatureChoices(f), ext \in ExtensionChoices}

Bodies == UNION {BodiesOf(f) : f \in WireFields}

Responses ==
    {Response(200, "object", b) : b \in Bodies}
        \cup {Response(st, "object", b) : st \in {404, 500}, b \in {b \in Bodies : ~Has(b, "extensions")}}
        \cup {Response(st, k, <<>>) : st \in {200, 404, 500}, k \in {"text", "array"}}

(* data of a return from the gateway: form values, all strings *)
ReturnFields ==
    {rc \o ps \o ac :
        rc \in {<<>>} \cup {<<Item("resultCode", StrV(t))>> : t \in {<<"0">>, <<"1", "0">>, <<"0", "7">>, <<"x">>}},
        ps \in {<<>>, <<Item("paymentStatus", Chr("7"))>>},
        ac \in {<<>>, <<Item("authCode", Chr("x"))>>}}

ReturnDataOf(f) ==
    UNION {{f \o sig, Reverse(f \o sig), <<Item("bonus", Chr("y"))>> \o f \o sig} :
              sig \in {<<Item("signature", SigV(sign(f, GatewayKey)))>>,
                       <<Item("signature", SigV(JunkSignature))>>,
                       <<Item("signature", SigV(BadPadding))>>, <<>>}}

ReturnData == UNION {ReturnDataOf(f) : f \in ReturnFields}

----------------------------------------------------------------------------
(* State *)

VARIABLES
    step,       \* position of the signing scenario
    pairs,      \* the payload P handed to the signer
    key,        \* the private key (CsobClient.key)
    msg,        \* result of mk_msg_for_sign(P)
    signed,     \* result of mk_payload(key, P)
    sigs,       \* results of sign(P, key), in call order
    other,      \* the payload presented to the verifier
    verdict,    \* results of verify(other, s, pub) for every s of sigs
    pc,         \* position of the client call: idle, waiting, done
    op,         \* the client operation called
    pubkey,     \* the gateway's public key (CsobClient.pubkey)
    request,    \* the request handed to the session
    sends,      \* HTTP sends made by the current call
    response,   \* the response object handed to validate_response
    datadict,   \* the data handed to gateway_return
    raised,     \* the exception that left the call
    result,     \* what the call returned: none, response, or the dict of gateway_return
    examined    \* signatures verified and extension entries looked at by the call

signVars == <<step, pairs, msg, signed, sigs, other, verdict>>
clientVars == <<pc, op, pubkey, request, sends, response, datadict, raised, result, examined>>
vars == <<signVars, key, clientVars>>

NoVerdict == [pub |-> NoKey, results |-> <<>>]
NoRequest == [method |-> "", endpoint |-> "", payload |-> <<>>, inUrl |-> FALSE]
NoResult == [kind |-> "none", value |-> <<>>]
NothingExamined == [verifies |-> 0, entries |-> 0]

SignIdle ==
    /\ step = "off"
    /\ pairs = <<>>
    /\ msg = <<>>
    /\ signed = <<>>
    /\ sigs = <<>>
    /\ other = <<>>
    /\ verdict = NoVerdict

ClientIdle ==
    /\ pc = "idle"
    /\ op = ""
    /\ request = NoRequest
    /\ sends = 0
    /\ response = NoResponse
    /\ datadict = <<>>
    /\ raised = NoError
    /\ result = NoResult
    /\ examined = NothingExamined

----------------------------------------------------------------------------
(* req_payload(pay_id, **kwargs) *)
RECURSIVE NonEmpty(_)
NonEmpty(kwargs) ==
    IF kwargs = <<>> THEN <<>>
    ELSE IF Head(kwargs).v \notin EMPTY_VALUES THEN <<Head(kwargs)>> \o NonEmpty(Tail(kwargs))
    ELSE NonEmpty(Tail(kwargs))

req_payload(pay_id, dttm, kwargs) ==
    mk_payload(key, <<Item("merchantId", merchant_id), Item("payId", pay_id), Item("dttm", dttm)>>
                        \o NonEmpty(kwargs))

PayIds == {Chr("y")}

----------------------------------------------------------------------------
(* The signing functions applied to a payload *)

InitSign ==
    /\ step = "input"
    /\ pairs \in Payloads
    /\ key \in KeyIds
    /\ msg = <<>>
    /\ signed = <<>>
    /\ sigs = <<>>
    /\ other = pairs
    /\ verdict = NoVerdict
    /\ pubkey = key
    /\ ClientIdle

MkMsg ==
    /\ step = "input"
    /\ msg' = mk_msg_for_sign(pairs)
    /\ step' = "msg"
    /\ UNCHANGED <<pairs, key, signed, sigs, other, verdict, clientVars>>

MkPayload ==
    /\ step = "input"
    /\ signed' = mk_payload(key, pairs)
    /\ step' = "payload"
    /\ UNCHANGED <<pairs, key, msg, sigs, other, verdict, clientVars>>

(* CsobClient.req_payload with the payload as keyword arguments *)
ReqPayload ==
    /\ step = "input"
    /\ \E pay_id \in PayIds, dttm \in Clock :
        signed' = req_payload(pay_id, dttm, pairs)
    /\ step' = "req_payload"
    /\ UNCHANGED <<pairs, key, msg, sigs, other, verdict, clientVars>>

Sign ==
    /\ step \in {"input", "signed"}
    /\ Len(sigs) < MaxSigns
    /\ sigs' = Append(sigs, sign(pairs, key))
    /\ step' = "signed"
    /\ UNCHANGED <<pairs, key, msg, signed, other, verdict, clientVars>>

(* the payload that reaches the verifier differs from the signed one *)
Tamper ==
    /\ step = "signed"
    /\ other = pairs
    /\ \E q \in Payloads :
        /\ OneEdit(pairs, q)
        /\ other' = q
    /\ UNCHANGED <<step, pairs, key, msg, signed, sigs, verdict, clientVars>>

Verify ==
    /\ step = "signed"
    /\ \E pub \in KeyIds :
        verdict' = [pub |-> pub, results |-> [i \in 1..Len(sigs) |-> verify(other, sigs[i], pub)]]
    /\ step' = "verified"
    /\ UNCHANGED <<pairs, key, msg, signed, sigs, other, clientVars>>

NextSign ==
    \/ MkMsg
    \/ MkPayload
    \/ ReqPayload
    \/ Sign
    \/ Tamper
    \/ Verify

SpecSign == InitSign /\ [][NextSign]_vars

----------------------------------------------------------------------------
(* client.CsobClient *)

Request(method, endpoint, payload, inUrl) ==
    [method |-> method, endpoint |-> endpoint, payload |-> payload, inUrl |-> inUrl]

(* not cart *)
Falsy(v) == v \in {NoneV, ListV(<<>>), StrV(<<>>), IntV(0), BoolV(FALSE)}

Take(s, n) == SubSeq(s, 1, IF Len(s) < n THEN Len(s) ELSE n)

payment_init_payload(order_no, total_amount, return_url, description, cart, dttm) ==
    LET filled == IF Falsy(cart)
                  THEN ListV(<< <<Item("name", StrV(Take(description.text, 20))),
                                  Item("quantity", IntV(1)),
                                  Item("amount", total_amount)>> >>)
                  ELSE cart
    IN mk_payload(key, <<
        Item("merchantId", merchant_id),
        Item("orderNo", StrV(PyStr(order_no))),
        Item("dttm", dttm),
        Item("payOperation", Word(<<"p", "a", "y", "m", "e", "n", "t">>)),
        Item("payMethod", Word(<<"c", "a", "r", "d">>)),
        Item("totalAmount", total_amount),
        Item("currency", Word(<<"C", "Z", "K">>)),
        Item("closePayment", BoolV(TRUE)),
        Item("returnUrl", return_url),
        Item("returnMethod", Word(<<"P", "O", "S", "T">>)),
        Item("cart", filled),
        Item("description", description),
        Item("merchantData", NoneV),
        Item("customerId", NoneV),
        Item("language", Word(<<"C", "Z">>)),
        Item("ttlSec", IntV(600)),
        Item("logoVersion", NoneV),
        Item("colorSchemeVersion", NoneV)>>)

Amounts == {NoneV, IntV(10)}
CallerCarts == {NoneV, ListV(<<CartItem("x", 1, 10), CartItem("y", 5, 0)>>)}

(* self._client.post / get / put: one request handed to the session *)
Send(o, req) ==
    /\ op' = o
    /\ request' = req
    /\ sends' = sends + 1
    /\ pc' = "waiting"
    /\ UNCHANGED <<signVars, key, pubkey, response, datadict, raised, result, examined>>

payment_init ==
    /\ pc = "idle"
    /\ \E cart \in CallerCarts, dttm \in Clock :
        Send("payment_init",
             Request("POST", "payment/init",
                     payment_init_payload(IntV(5), IntV(10), Chr("x"), Chr("x"), cart, dttm), FALSE))

payment_status ==
    /\ pc = "idle"
    /\ \E pay_id \in PayIds, dttm \in Clock :
        Send("payment_status", Request("GET", "payment/status/", req_payload(pay_id, dttm, <<>>), TRUE))

payment_reverse ==
    /\ pc = "idle"
    /\ \E pay_id \in PayIds, dttm \in Clock :
        Send("payment_reverse", Request("PUT", "payment/reverse/", req_payload(pay_id, dttm, <<>>), FALSE))

payment_close ==
    /\ pc = "idle"
    /\ \E pay_id \in PayIds, total_amount \in Amounts, dttm \in Clock :
        Send("payment_close",
             Request("PUT", "payment/close/",
                     req_payload(pay_id, dttm, <<Item("totalAmount", total_amount)>>), FALSE))

payment_refund ==
    /\ pc = "idle"
    /\ \E pay_id \in PayIds, amount \in Amounts, dttm \in Clock :
        Send("payment_refund",
             Request("PUT", "payment/refund/",
                     req_payload(pay_id, dttm, <<Item("amount", amount)>>), FALSE))

customer_info ==
    /\ pc = "idle"
    /\ \E dttm \in Clock :
        Send("customer_info",
             Request("GET", "customer/info/",
                     mk_payload(key, <<Item("merchantId", merchant_id), Item("customerId", Chr("1")),
                                       Item("dttm", dttm)>>), TRUE))

oneclick_init ==
    /\ pc = "idle"
    /\ \E total_amount \in Amounts \ {NoneV}, dttm \in Clock :
        Send("oneclick_init",
             Request("POST", "payment/oneclick/init",
                     mk_payload(key, <<Item("merchantId", merchant_id), Item("origPayId", Chr("y")),
                                       Item("orderNo", StrV(PyStr(IntV(5)))), Item("dttm", dttm),
                                       Item("totalAmount", total_amount),
                                       Item("currency", Word(<<"C", "Z", "K">>)),
                                       Item("description", NoneV)>>), FALSE))

oneclick_start ==
    /\ pc = "idle"
    /\ \E pay_id \in PayIds, dttm \in Clock :
        Send("oneclick_start",
             Request("POST", "payment/oneclick/start",
                     mk_payload(key, <<Item("merchantId", merchant_id), Item("payId", pay_id),
                                       Item("dttm", dttm)>>), FALSE))

echo ==
    /\ pc = "idle"
    /\ \E method \in {"POST", "GET"}, dttm \in Clock :
        Send("echo",
             Request(method, "echo/",
                     mk_payload(key, <<Item("merchantId", merchant_id), Item("dttm", dttm)>>),
                     method # "POST"))

(* the adapter sends the request again when the transport fails *)
HTTPAdapter_send_retries ==
    /\ pc = "waiting"
    /\ sends < 3
    /\ sends' = sends + 1
    /\ UNCHANGED <<signVars, key, pc, op, pubkey, request, response, datadict, raised, result, examined>>

(* HTTPAdapter.send: the transport raised a RequestException *)
HTTPAdapter_send_fails ==
    /\ pc = "waiting"
    /\ raised' = CsobBaseException(ConnectionError)
    /\ pc' = "done"
    /\ request' = NoRequest
    /\ UNCHANGED <<signVars, key, op, pubkey, sends, response, datadict, result, examined>>

(* the transport delivered r: return utils.validate_response(r, self.pubkey) *)
Receive ==
    /\ pc = "waiting"
    /\ \E r \in Responses : \E out \in {validate_response(r, pubkey)} :
          /\ response' = out.response
          /\ raised' = out.raised
          /\ result' = IF out.raised = NoError THEN [kind |-> "response", value |-> <<>>] ELSE NoResult
          /\ examined' = [verifies |-> out.verifies, entries |-> out.entries]
    /\ pc' = "done"
    /\ request' = NoRequest
    /\ UNCHANGED <<signVars, key, op, pubkey, sends, datadict>>

(* int(v) *)
IntRaises(v) == v.kind \notin {"str", "int", "bool"} \/ (v.kind = "str" /\ ~IntParses(v.text))
pyint(v) ==
    CASE v.kind = "str" -> IntV(IntParse(v.text))
      [] v.kind = "int" -> v
      [] v.kind = "bool" -> IntV(IF v.flag THEN 1 ELSE 0)

RetypedKeys == {"resultCode", "paymentStatus"}

RECURSIVE Retype(_, _)
Retype(keys, d) ==
    IF keys = <<>> THEN <<>>
    ELSE IF Has(d, Head(keys))
         THEN <<Item(Head(keys), IF Head(keys) \in RetypedKeys THEN pyint(Get(d, Head(keys)))
                                 ELSE Get(d, Head(keys)))>> \o Retype(Tail(keys), d)
    ELSE Retype(Tail(keys), d)

gateway_return_raises(d, pub) ==
    IF \E k \in RetypedKeys : Has(d, k) /\ IntRaises(Get(d, k)) THEN ValueError
    ELSE IF ~Has(d, "signature") THEN KeyError("signature")
    ELSE IF verify_raises(Get(d, "signature").sig) THEN BinasciiError
    ELSE IF ~verify(Retype(RESPONSE_KEYS, d), Get(d, "signature").sig, pub)
         THEN CsobVerifyError("Unverified gateway return data")
    ELSE NoError

gateway_return ==
    /\ pc = "idle"
    /\ \E d \in ReturnData :
        /\ op' = "gateway_return"
        /\ datadict' = d
        /\ \E exc \in {gateway_return_raises(d, pubkey)} :
              /\ raised' = exc
              /\ result' = IF exc = NoError
                           THEN [kind |-> "dict", value |-> Retype(RESPONSE_KEYS, d)]
                           ELSE NoResult
        /\ pc' = "done"
        /\ UNCHANGED <<signVars, key, pubkey, request, sends, response, examined>>

Init ==
    /\ SignIdle
    /\ key = 1
    /\ pubkey \in KeyIds
    /\ ClientIdle

Next ==
    \/ payment_init
    \/ payment_status
    \/ payment_reverse
    \/ payment_close
    \/ payment_refund
    \/ customer_info
    \/ oneclick_init
    \/ oneclick_start
    \/ echo
    \/ HTTPAdapter_send_fails
    \/ Receive
    \/ gateway_return

Spec == Init /\ [][Next]_vars

----------------------------------------------------------------------------
(* Properties of the signing functions (SpecSign) *)

AllResults(b) == \A i \in 1..Len(verdict.results) : verdict.results[i] = b

(* C1: verify(P, sign(P, priv), pub) is true for every payload P, with or  *)
(* without a cart, and every key pair; every signature made for P by the   *)
(* same key verifies against P.                                            *)
C1_SignThenVerify ==
    (step = "verified" /\ other = pairs /\ verdict.pub = key) => AllResults(TRUE)

C1_Witness ==
    /\ step = "verified"
    /\ other = pairs
    /\ verdict.pub = key
    /\ Len(sigs) = 2
    /\ Len(verdict.results) = 2
    /\ AllResults(TRUE)
    /\ Has(pairs, "cart")
    /\ Len(Get(pairs, "cart").items) = 2
    /\ \E i \in 1..Len(pairs) : pairs[i].v = BoolV(TRUE)

(* The texts the fields of a payload put into the message *)
Texts(p) == MapStr(Values(DropNone(p)))
NoBar(p) == \A i \in 1..Len(Texts(p)) : \A j \in 1..Len(Texts(p)[i]) : Texts(p)[i][j] # "|"
NoCart(p) == \A i \in 1..Len(p) : p[i].v.kind = "list" => p[i].v.items = <<>>

(* C2 as stated: a signature valid for P never verifies against a          *)
(* different payload P' (different in a field name, value, value type,     *)
(* presence of a field or field order).                                    *)
C2_AnyDifferenceRejected ==
    (step = "verified" /\ other # pairs /\ verdict.pub = key) => AllResults(FALSE)

(* C2 amended: a signature valid for P does not verify against P' when     *)
(* both hold no non-empty cart and no value containing "|", have the same  *)
(* number of non-None fields, and differ in the sequence of the            *)
(* stringified values of those fields.                                     *)
C2_DifferentTextsRejected ==
    ( /\ step = "verified"
      /\ verdict.pub = key
      /\ NoCart(pairs) /\ NoCart(other)
      /\ NoBar(pairs) /\ NoBar(other)
      /\ Len(Texts(pairs)) = Len(Texts(other))
      /\ Texts(pairs) # Texts(other) ) => AllResults(FALSE)

C2_Witness ==
    /\ step = "verified"
    /\ verdict.pub = key
    /\ NoCart(pairs) /\ NoCart(other)
    /\ NoBar(pairs) /\ NoBar(other)
    /\ Len(Texts(pairs)) = 2
    /\ Len(Texts(other)) = 2
    /\ Texts(other) = <<Texts(pairs)[2], Texts(pairs)[1]>>
    /\ Texts(pairs) # Texts(other)
    /\ Len(verdict.results) > 0
    /\ AllResults(FALSE)

(* The text a value contributes, written out per kind of value *)
JsText(v) ==
    CASE v.kind = "bool" -> IF v.flag THEN <<"t", "r", "u", "e">> ELSE <<"f", "a", "l", "s", "e">>
      [] v.kind = "int" -> IntStr(v.num)
      [] v.kind = "str" -> v.text
      [] v.kind = "list" -> <<"[", "]">>

RECURSIVE Glue(_)
Glue(texts) ==
    IF Len(texts) = 0 THEN <<>>
    ELSE IF Len(texts) = 1 THEN texts[1]
    ELSE Glue(SubSeq(texts, 1, Len(texts) - 1)) \o <<"|">> \o texts[Len(texts)]

(* every value of every cart item, in item-then-field order *)
RECURSIVE ItemTexts(_)
ItemTexts(cart) ==
    IF cart = <<>> THEN <<>>
    ELSE [j \in 1..Len(Head(cart)) |-> JsText(Head(cart)[j].v)] \o ItemTexts(Tail(cart))

Segment(f) ==
    IF f.k = "cart" /\ f.v.kind = "list" /\ f.v.items # <<>>
    THEN Glue(ItemTexts(f.v.items))
    ELSE JsText(f.v)

Present(p) == SelectSeq(p, LAMBDA f : f.v.kind # "none")

ExpectedText(p) == Glue([i \in 1..Len(Present(p)) |-> Segment(Present(p)[i])])

(* C9: in the message of mk_msg_for_sign a non-empty cart contributes one  *)
(* segment at the cart's position, the "|"-join of the stringified values  *)
(* of every cart item in item-then-field order; every other field that is  *)
(* kept contributes its stringified value (booleans as true/false); the    *)
(* segments are joined by "|" in field order and encoded as UTF-8.         *)
C9_CanonicalMessage ==
    step = "msg" => msg = Utf8(ExpectedText(pairs))

C9_Witness ==
    /\ step = "msg"
    /\ Len(pairs) = 2
    /\ pairs[1].k = "cart"
    /\ pairs[1].v = ListV(<<CartItem("z^", 1, 10), CartItem("y", 5, 0)>>)
    /\ pairs[2].v = BoolV(TRUE)
    /\ msg = <<197, 190, 124, 49, 124, 49, 48, 124, 121, 124, 53, 124, 48, 124, 116, 114, 117, 101>>

(* C10: the message builder omits every field whose value is in the        *)
(* empty-value set, so the message of a payload equals the message of the  *)
(* payload with its empty-valued fields removed.                           *)
C10_EmptyValuesOmitted ==
    step = "msg" => msg = mk_msg_for_sign(DropEmpty(pairs))

(* the pairs with a non-empty value, in their given order *)
Filled(p) == SelectSeq(p, LAMBDA it : it.v \notin EMPTY_VALUES)

(* the pairs req_payload starts from *)
BasePairs == {<<Item("merchantId", merchant_id), Item("payId", pay_id), Item("dttm", dttm)>> :
                 pay_id \in PayIds, dttm \in Clock}

(* the fields a built payload has to carry *)
GivenPairs ==
    IF step = "payload" THEN {pairs}
    ELSE {base \o pairs : base \in BasePairs}

(* C11: the payload mk_payload returns, and the one req_payload returns,   *)
(* holds exactly the pairs with non-empty values in their given order,     *)
(* followed by 'signature' as its last field, and the payload without      *)
(* 'signature' verifies against that signature under the signing key pair. *)
C11_PayloadSignedLast ==
    step \in {"payload", "req_payload"} =>
        /\ Len(signed) > 0
        /\ signed[Len(signed)].k = "signature"
        /\ SubSeq(signed, 1, Len(signed) - 1) \in {Filled(p) : p \in GivenPairs}
        /\ \A i \in 1..(Len(signed) - 1) : signed[i].k # "signature"
        /\ signed[Len(signed)].v.kind = "sig"
        /\ ~verify_raises(signed[Len(signed)].v.sig)
        /\ verify(SubSeq(signed, 1, Len(signed) - 1), signed[Len(signed)].v.sig, key)

C11_Witness ==
    /\ step = "req_payload"
    /\ Len(pairs) = 2
    /\ pairs[1].v = StrV(<<>>)
    /\ pairs[2].k = "cart"
    /\ Len(pairs[2].v.items) = 2
    /\ Len(signed) = 5
    /\ signed[4] = pairs[2]
    /\ signed[5].k = "signature"

----------------------------------------------------------------------------
(* Properties of the client and of validate_response (Spec) *)

ClientOps ==
    {"payment_init", "payment_status", "payment_reverse", "payment_close", "payment_refund",
     "customer_info", "oneclick_init", "oneclick_start", "echo"}

(* the call was a client operation that received a response *)
Validated == pc = "done" /\ op \in ClientOps /\ response.kind # "none"

(* the recognized fields of a body, in recognized-key order *)
Recognized(body) ==
    LET ks == SelectSeq(RESPONSE_KEYS, LAMBDA k : \E i \in 1..Len(body) : body[i].k = k)
    IN [i \in 1..Len(ks) |-> Item(ks[i], body[CHOOSE j \in 1..Len(body) : body[j].k = ks[i]].v)]

(* signature is what the holder of pub's private key made for fields *)
Genuine(fields, signature, pub) ==
    /\ signature.kind = "b64"
    /\ signature.raw.signer = pub
    /\ signature.raw.digest = SHA(Utf8(ExpectedText(fields)))

(* validate_response got as far as the primary verification, which         *)
(* returned a value                                                        *)
PrimaryVerified ==
    /\ Validated
    /\ ~IsErrorStatus(response.status)
    /\ response.kind = "object"
    /\ Has(response.body, "signature")
    /\ Get(response.body, "signature").sig.kind = "b64"

PrimaryGenuine ==
    PrimaryVerified /\ Genuine(Recognized(response.body), Get(response.body, "signature").sig, pubkey)

(* C3: validate_response returns a response with a payload only if the     *)
(* signature of the body is the gateway's for the extracted recognized     *)
(* fields; when the primary verification returns false it raises           *)
(* CsobVerifyError('Cannot verify response'), returns nothing, attaches    *)
(* nothing and looks at no extension entry.                                *)
C3_PrimaryVerification ==
    /\ (Validated /\ (result.kind = "response" \/ response.hasPayload)) => PrimaryGenuine
    /\ (PrimaryVerified /\ ~PrimaryGenuine) =>
          /\ raised = CsobVerifyError("Cannot verify response")
          /\ result = NoResult
          /\ ~response.hasPayload
          /\ ~response.hasExtensions
          /\ examined = [verifies |-> 1, entries |-> 0]

C3_Witness ==
    /\ PrimaryVerified
    /\ ~PrimaryGenuine
    /\ Get(response.body, "signature").sig.raw.signer = pubkey
    /\ Has(response.body, "extensions")
    /\ Len(Get(response.body, "extensions").items) = 2
    /\ raised = CsobVerifyError("Cannot verify response")
    /\ result = NoResult
    /\ examined.entries = 0

(* the masked-card entries of an extensions list, and their 5-field        *)
(* sub-objects                                                             *)
MaskedEntries(list) == SelectSeq(list, LAMBDA one : Get(one, "extension") \in MaskedCardTypes)
SubObject(one) ==
    LET ks == SelectSeq(maskclnrp_keys, LAMBDA k : \E i \in 1..Len(one) : one[i].k = k)
    IN [i \in 1..Len(ks) |-> Item(ks[i], one[CHOOSE j \in 1..Len(one) : one[j].k = ks[i]].v)]
EntryVerifies(one) ==
    /\ \E i \in 1..Len(one) : one[i].k = "signature"
    /\ Genuine(SubObject(one), Get(one, "signature").sig, pubkey)

(* C4 as stated: for every extensions list of a response whose primary     *)
(* signature verifies, if a masked-card entry fails the verification of    *)
(* its own signature the call fails with CsobVerifyError('Cannot verify    *)
(* masked card extension response') and returns nothing; otherwise it      *)
(* returns the sub-objects of exactly the masked-card entries, in the      *)
(* order of the list.                                                      *)
C4_ExtensionIsolation ==
    (PrimaryGenuine /\ Has(response.body, "extensions")) =>
        LET masked == MaskedEntries(Get(response.body, "extensions").items)
        IN IF \E i \in 1..Len(masked) : ~EntryVerifies(masked[i])
           THEN /\ raised = CsobVerifyError("Cannot verify masked card extension response")
                /\ result = NoResult
           ELSE /\ raised = NoError
                /\ result.kind = "response"
                /\ response.extensions = [i \in 1..Len(masked) |-> SubObject(masked[i])]

(* C5: on success the payload holds exactly the recognized keys of the     *)
(* body with the body's values, in recognized-key order, without the       *)
(* signature and the unrecognized keys; a body signed over its recognized  *)
(* fields in recognized-key order passes the primary verification in       *)
(* whatever order its fields were transmitted.                             *)
C5_RecognizedKeyOrder ==
    /\ (Validated /\ result.kind = "response") =>
          /\ response.hasPayload
          /\ response.payload = Recognized(response.body)
          /\ \A i \in 1..Len(response.payload) :
                \E j \in 1..Len(RESPONSE_KEYS) : RESPONSE_KEYS[j] = response.payload[i].k
    /\ PrimaryGenuine =>
          /\ response.hasPayload
          /\ response.payload = Recognized(response.body)
          /\ raised # CsobVerifyError("Cannot verify response")

C5_Witness ==
    /\ Validated
    /\ result.kind = "response"
    /\ Len(response.body) = 4
    /\ response.body[1].k = "resultMessage"
    /\ response.body[3].k = "dttm"
    /\ Len(response.payload) = 3
    /\ response.payload[1].k = "dttm"
    /\ response.payload[3].k = "resultMessage"

(* C6: an HTTP error status always yields CsobBaseException wrapping the   *)
(* HTTP error with its status, whether or not the body is JSON;            *)
(* CsobJSONDecodeError('Cannot decode JSON in response') is raised exactly *)
(* when the status is no error and the body is not JSON; a signature is    *)
(* verified only when both checks passed.                                  *)
C6_FailurePrecedence ==
    Validated =>
        /\ IsErrorStatus(response.status) =>
              /\ raised.type = "CsobBaseException"
              /\ raised.cause = "HTTPError"
              /\ raised.status = response.status
              /\ raised.text = (IF response.status >= 500 THEN "Server Error" ELSE "Client Error")
        /\ (raised.type = "CsobJSONDecodeError") <=>
              (~IsErrorStatus(response.status) /\ response.kind = "text")
        /\ raised.type = "CsobJSONDecodeError" => raised.text = "Cannot decode JSON in response"
        /\ examined.verifies > 0 => (~IsErrorStatus(response.status) /\ response.kind # "text")

C6_Witness ==
    /\ Validated
    /\ response.status = 500
    /\ response.kind = "text"
    /\ raised = CsobBaseException(HTTPError(500))
    /\ raised.text = "Server Error"
    /\ examined.verifies = 0

(* C7: every client operation makes at most one HTTP send per call; a      *)
(* connection failure surfaces as CsobBaseException wrapping its cause;    *)
(* when the call ends with an error exactly one request was sent and       *)
(* nothing is returned.                                                    *)
C7_SingleSend ==
    /\ sends <= 1
    /\ (pc \in {"waiting", "done"} /\ op \in ClientOps) => sends = 1
    /\ (pc = "done" /\ op \in ClientOps /\ response.kind = "none") =>
          /\ raised.type = "CsobBaseException"
          /\ raised.cause = "ConnectionError"
          /\ raised.text = "Can't connect"
    /\ (pc = "done" /\ raised # NoError) => result = NoResult

C7_Witness ==
    /\ pc = "done"
    /\ op = "payment_refund"
    /\ response.kind = "none"
    /\ raised = CsobBaseException(ConnectionError)
    /\ sends = 1
    /\ result = NoResult

(* the integer a decimal text denotes, for the retyped fields *)
RetypedValue(k, v) ==
    IF k \in {"resultCode", "paymentStatus"} THEN IntV(IntParse(v.text)) ELSE v

NumericCodes(d) ==
    \A i \in 1..Len(d) : d[i].k \in {"resultCode", "paymentStatus"} =>
        (d[i].v.kind = "str" /\ d[i].v.text # <<>> /\ \A j \in 1..Len(d[i].v.text) : IsDigit(d[i].v.text[j]))

(* C8 as stated: for a gateway-return dict whose signature is valid for    *)
(* its recognized fields and whose resultCode and paymentStatus are        *)
(* numeric strings, gateway_return returns exactly the recognized fields   *)
(* in recognized-key order, those two as integers and the others           *)
(* unchanged; for a dict whose signature is not valid it raises            *)
(* CsobVerifyError and returns nothing.                                    *)
C8_GatewayReturnRetype ==
    (pc = "done" /\ op = "gateway_return" /\ NumericCodes(datadict) /\ Has(datadict, "signature")
        /\ Get(datadict, "signature").sig.kind = "b64") =>
        IF Genuine(Recognized(datadict), Get(datadict, "signature").sig, pubkey)
        THEN /\ raised = NoError
             /\ result.kind = "dict"
             /\ result.value = [i \in 1..Len(Recognized(datadict)) |->
                                   Item(Recognized(datadict)[i].k,
                                        RetypedValue(Recognized(datadict)[i].k, Recognized(datadict)[i].v))]
        ELSE /\ raised.type = "CsobVerifyError"
             /\ result = NoResult

(* the typed errors of the gateway client *)
GatewayErrors == {"CsobBaseException", "CsobJSONDecodeError", "CsobVerifyError"}

(* C12: whenever validate_response does not return a validated response,   *)
(* the error that leaves it is one of the typed gateway errors             *)
(* (CsobBaseException, CsobJSONDecodeError, CsobVerifyError), for every    *)
(* decoded body, also one without top-level 'signature' and one with a     *)
(* masked-card extension entry without 'signature'.                        *)
C12_TypedErrors ==
    (Validated /\ raised # NoError) => raised.type \in GatewayErrors

(* C13: when validate_response raises, the response object it was handed   *)
(* carries no payload attribute and no extensions attribute, in particular *)
(* no extension verified before the failure.                               *)
C13_NothingAttachedOnFailure ==
    (Validated /\ raised # NoError) =>
        /\ ~response.hasPayload
        /\ ~response.hasExtensions
        /\ response.payload = <<>>
        /\ response.extensions = <<>>

====
